---- MODULE Spec2Model ----
(***************************************************************************)
(* Lazy sequence transducers of totallylazy.js (src/src/transducers.ts).   *)
(*                                                                         *)
(* Transducer objects live in a heap (a sequence of records addressed by   *)
(* index) because Take and Scan stages carry mutable fields and facades    *)
(* share stage instances.  A consumption is a chain of generators, one per *)
(* non-identity leaf stage, each with a program counter; one pull by the   *)
(* consumer runs the chain until the outermost generator yields or         *)
(* returns.                                                                *)
(***************************************************************************)
EXTENDS Integers, Sequences, FiniteSets, TLC

VARIABLES
    source,     \* the iterable handed to sequence(): items and capabilities
    heap,       \* transducer objects, addressed by index
    facades,    \* Sequence / AsyncSequence objects, in creation order
    history,    \* per facade: the chaining call that created it
    it,         \* per mode ("sync", "async"): the iterator being consumed
    pulls,      \* per mode: next() calls made on the source's iterator
    calls,      \* per mode: mapper / predicate / reducer.call invocations
    runs,       \* iterators obtained from facades so far
    built,      \* per mode: the transducer built for driving it directly
    rng         \* the sequence range() returned and what was pulled from it

vars == <<source, heap, facades, history, it, pulls, calls, runs, built, rng>>

(***************************************************************************)
(* Bounds of the exploration.                                              *)
(***************************************************************************)
MaxLen == 2         \* longest drawn source (the spec's examples are added)
MaxCount == 2       \* largest count given to take
MaxFacades == 2     \* facades alive at once, the root included
MaxRuns == 1        \* consumptions started
MaxStages == 2      \* chaining calls in a drawn transducer definition

(***************************************************************************)
(* JavaScript values.  Elements are numbers; undefined and NaN are encoded *)
(* as two integers outside the range of the numbers used.                  *)
(***************************************************************************)
Undefined == -1
NaN == -2
IsNumber(v) == v \notin {Undefined, NaN}

Numbers == {1, 2}
Values == Numbers \cup {Undefined}

SeqsUpTo(S, n) == UNION {[1..k -> S] : k \in 0..n}

Examples == {<<1, 2, 3, 4>>, <<1, 2, 3>>, <<1, 3, 5>>}
Items == SeqsUpTo(Values, MaxLen) \cup Examples

(***************************************************************************)
(* Mapper, Predicate, Reducer: the functions a caller supplies.            *)
(***************************************************************************)
Mappers == {"increment"}
Predicates == {"even", "odd"}
Reducers == {"sum", "latest"}

\* a + b on JavaScript numbers: undefined or NaN operands give NaN
add(a, b) == IF IsNumber(a) /\ IsNumber(b) THEN a + b ELSE NaN

increment(a) == add(a, 1)

\* The strict functions check their argument first and throw when it is
\* not a number; on numbers they are increment, even and Sum.
Strict == {"strictIncrement", "strictEven", "strictSum"}

Throws(fn, a) == fn \in Strict /\ ~IsNumber(a)

Mapper(mapper, a) ==
    CASE mapper = "increment"       -> increment(a)
      [] mapper = "strictIncrement" -> increment(a)

\* n % 2 == 0 and n % 2 == 1: both false on undefined and NaN
Predicate(predicate, a) ==
    CASE predicate = "even"       -> IsNumber(a) /\ a % 2 = 0
      [] predicate = "odd"        -> IsNumber(a) /\ a % 2 = 1
      [] predicate = "strictEven" -> IsNumber(a) /\ a % 2 = 0

Sum_call(a, b) == add(a, b)
Sum_identity == 0

\* a second reducer, which keeps the latest element: call = (acc, x) => x,
\* identity = () => undefined
Reducer_call(reducer, accumilator, instance) ==
    CASE reducer = "sum"       -> Sum_call(accumilator, instance)
      [] reducer = "latest"    -> instance
      [] reducer = "strictSum" -> Sum_call(accumilator, instance)

Reducer_identity(reducer) ==
    CASE reducer = "sum"       -> Sum_identity
      [] reducer = "latest"    -> Undefined
      [] reducer = "strictSum" -> Sum_identity

(***************************************************************************)
(* Transducer objects.  new allocates; every constructor returns the       *)
(* extended heap and the reference of the object built.                    *)
(***************************************************************************)
new(h, object) == [heap |-> Append(h, object), ref |-> Len(h) + 1]

IdentityTransducer == [kind |-> "IdentityTransducer"]
FirstTransducer == [kind |-> "FirstTransducer"]
LastTransducer == [kind |-> "LastTransducer"]
MapTransducer(mapper) == [kind |-> "MapTransducer", mapper |-> mapper]
FilterTransducer(predicate) == [kind |-> "FilterTransducer", predicate |-> predicate]
ScanTransducer(reducer) ==
    [kind |-> "ScanTransducer", reducer |-> reducer,
     accumilator |-> Reducer_identity(reducer)]
TakeTransducer(count) == [kind |-> "TakeTransducer", count |-> count]
TakeWhileTransducer(predicate) ==
    [kind |-> "TakeWhileTransducer", predicate |-> predicate]
CompositeTransducer(a, b) == [kind |-> "CompositeTransducer", a |-> a, b |-> b]

identity(h) == new(h, IdentityTransducer)

\* compose(b, a) with the stages the other way round: b's output feeds a
compose_swapped(h, b, a) == new(h, CompositeTransducer(b, a))

\* compose(b, a): a's output feeds b
compose(h, b, a) == new(h, CompositeTransducer(a, b))

\* transducer.compose(other): other is fed by this
Transducer_compose(h, this, other) == compose(h, other, this)

\* decompose listing b's stages before a's
RECURSIVE decompose_reversed(_, _)
decompose_reversed(h, transducer) ==
    IF h[transducer].kind = "CompositeTransducer"
    THEN decompose_reversed(h, h[transducer].b) \o decompose_reversed(h, h[transducer].a)
    ELSE <<transducer>>

RECURSIVE decompose(_, _)
decompose(h, transducer) ==
    IF h[transducer].kind = "CompositeTransducer"
    THEN decompose(h, h[transducer].a) \o decompose(h, h[transducer].b)
    ELSE <<transducer>>

first(h, transducer) ==
    LET n == new(h, FirstTransducer) IN compose(n.heap, n.ref, transducer)

last(h, transducer) ==
    LET n == new(h, LastTransducer) IN compose(n.heap, n.ref, transducer)

map(h, mapper, transducer) ==
    LET n == new(h, MapTransducer(mapper)) IN compose(n.heap, n.ref, transducer)

filter(h, predicate, transducer) ==
    LET n == new(h, FilterTransducer(predicate)) IN compose(n.heap, n.ref, transducer)

\* find built as filter(...) alone, without first
find_all(h, predicate, transducer) == filter(h, predicate, transducer)

find(h, predicate, transducer) ==
    LET f == filter(h, predicate, transducer) IN first(f.heap, f.ref)

scan(h, reducer, transducer) ==
    LET n == new(h, ScanTransducer(reducer)) IN compose(n.heap, n.ref, transducer)

\* reduce built as first(scan(...)) instead of last(scan(...))
reduce_first(h, reducer, transducer) ==
    LET s == scan(h, reducer, transducer) IN first(s.heap, s.ref)

reduce(h, reducer, transducer) ==
    LET s == scan(h, reducer, transducer) IN last(s.heap, s.ref)

take(h, count, transducer) ==
    LET n == new(h, TakeTransducer(count)) IN compose(n.heap, n.ref, transducer)

takeWhile(h, predicate, transducer) ==
    LET n == new(h, TakeWhileTransducer(predicate)) IN compose(n.heap, n.ref, transducer)

\* the chaining methods of class Transducer
Transducer_map(h, this, mapper) == map(h, mapper, this)
Transducer_filter(h, this, predicate) == filter(h, predicate, this)
Transducer_find(h, this, predicate) == find(h, predicate, this)
Transducer_first(h, this) == first(h, this)
Transducer_last(h, this) == last(h, this)
Transducer_take(h, this, count) == take(h, count, this)
Transducer_takeWhile(h, this, predicate) == takeWhile(h, predicate, this)
Transducer_scan(h, this, reducer) == scan(h, reducer, this)
Transducer_reduce(h, this, reducer) == reduce(h, reducer, this)

(***************************************************************************)
(* Driving a transducer.  transducer.sync(iterable) nests generator        *)
(* objects; none of them runs until it is pulled.  The nesting is recorded *)
(* as the chain of leaf stages, innermost (nearest the source) first.      *)
(* IdentityTransducer returns the iterable itself and adds no generator.   *)
(***************************************************************************)
RECURSIVE sync(_, _)
CompositeTransducer_sync(h, this) == sync(h, h[this].a) \o sync(h, h[this].b)

sync(h, this) ==
    CASE h[this].kind = "IdentityTransducer"  -> <<>>
      [] h[this].kind = "CompositeTransducer" -> CompositeTransducer_sync(h, this)
      [] OTHER -> <<this>>

RECURSIVE async_(_, _)
CompositeTransducer_async_(h, this) == async_(h, h[this].a) \o async_(h, h[this].b)

async_(h, this) ==
    CASE h[this].kind = "IdentityTransducer"  -> <<>>
      [] h[this].kind = "CompositeTransducer" -> CompositeTransducer_async_(h, this)
      [] OTHER -> <<this>>

(***************************************************************************)
(* A consumption in progress, as the generators see it:                    *)
(*   heap   the transducer objects (count and accumilator are mutated)     *)
(*   items  the source's elements       pos  elements obtained so far      *)
(*   chain  the leaf stage of each generator, innermost first              *)
(*   pc     each generator: "start", "suspended" (at its yield),           *)
(*          "completed", or "threw" (completed by an exception, which      *)
(*          every generator pulling from it passes on to its own caller)   *)
(*   pulls, calls  the counters of the mode being driven                   *)
(* A pull answers [s, done, value] like an iterator result.                *)
(***************************************************************************)
Yield(s, k, v) ==
    [s |-> [s EXCEPT !.pc[k] = "suspended"], done |-> FALSE, value |-> v]

Return(s, k) ==
    [s |-> [s EXCEPT !.pc[k] = "completed"], done |-> TRUE, value |-> Undefined]

\* an exception has left the generators and is on its way to the consumer
Thrown(s) == \E k \in 1..Len(s.pc) : s.pc[k] = "threw"

IteratorResult(s, done, value) == [s |-> s, done |-> done, value |-> value]

\* next() on the source's own iterator.  The source is re-iterable (an
\* array): every consumption starts a new iterator at its first element.
Source_next(s) ==
    IF s.pos < Len(s.items)
    THEN IteratorResult([s EXCEPT !.pos = @ + 1, !.pulls = @ + 1], FALSE, s.items[s.pos + 1])
    ELSE IteratorResult([s EXCEPT !.pulls = @ + 1], TRUE, Undefined)

\* Leaving a for-of / for-await loop early calls return() on the iterator it
\* loops over: a generator suspended inside its own loop leaves that loop
\* too, so the call cascades inwards.  The source's iterator has no state
\* to release.
RECURSIVE IteratorClose(_, _)
IteratorClose(s, k) ==
    IF k = 0 THEN s
    ELSE LET closed == [s EXCEPT !.pc[k] = "completed"]
         IN  IF s.pc[k] = "suspended" /\ s.heap[s.chain[k]].kind # "LastTransducer"
             THEN IteratorClose(closed, k - 1)
             ELSE closed

Stage(s, k) == s.heap[s.chain[k]]

\* An exception raised in the body of generator k's loop: the loop is left,
\* which closes the iterator it loops over, and the generator is finished.
Throw(s, k) ==
    [s |-> [IteratorClose(s, k - 1) EXCEPT !.pc[k] = "threw"],
     done |-> TRUE, value |-> Undefined]

(***************************************************************************)
(* The synchronous generators (the sync methods).                          *)
(***************************************************************************)
RECURSIVE next_sync(_, _)

\* FirstTransducer.sync without the "return" after its yield
FirstTransducer_sync_unending(s, k) ==
    LET r == next_sync(s, k - 1)
    IN  IF r.done THEN Return(r.s, k) ELSE Yield(r.s, k, r.value)

FirstTransducer_sync(s, k) ==
    IF s.pc[k] = "suspended"
    THEN Return(IteratorClose(s, k - 1), k)
    ELSE LET r == next_sync(s, k - 1)
         IN  IF r.done THEN Return(r.s, k) ELSE Yield(r.s, k, r.value)

RECURSIVE LastTransducer_sync_loop(_, _, _)
LastTransducer_sync_loop(s, k, last_) ==
    LET r == next_sync(s, k - 1)
    IN  IF r.done
        THEN IF last_ # Undefined /\ ~Thrown(r.s)
             THEN Yield(r.s, k, last_)
             ELSE Return(r.s, k)
        ELSE LastTransducer_sync_loop(r.s, k, r.value)

LastTransducer_sync(s, k) ==
    IF s.pc[k] = "suspended"
    THEN Return(s, k)
    ELSE LastTransducer_sync_loop(s, k, Undefined)

\* MapTransducer.sync yielding undefined where the mapper throws
MapTransducer_sync_swallowing(s, k) ==
    LET r == next_sync(s, k - 1)
        called == [r.s EXCEPT !.calls = @ + 1]
    IN  IF r.done THEN Return(r.s, k)
        ELSE IF Throws(Stage(s, k).mapper, r.value) THEN Yield(called, k, Undefined)
        ELSE Yield(called, k, Mapper(Stage(s, k).mapper, r.value))

MapTransducer_sync(s, k) ==
    LET r == next_sync(s, k - 1)
        called == [r.s EXCEPT !.calls = @ + 1]
    IN  IF r.done THEN Return(r.s, k)
        ELSE IF Throws(Stage(s, k).mapper, r.value) THEN Throw(called, k)
        ELSE Yield(called, k, Mapper(Stage(s, k).mapper, r.value))

\* FilterTransducer.sync leaving its loop at the first rejected element
FilterTransducer_sync_stopping(s, k) ==
    LET r == next_sync(s, k - 1)
        tested == [r.s EXCEPT !.calls = @ + 1]
    IN  IF r.done THEN Return(r.s, k)
        ELSE IF Predicate(Stage(s, k).predicate, r.value)
             THEN Yield(tested, k, r.value)
             ELSE Return(IteratorClose(tested, k - 1), k)

RECURSIVE FilterTransducer_sync(_, _)
FilterTransducer_sync(s, k) ==
    LET r == next_sync(s, k - 1)
        tested == [r.s EXCEPT !.calls = @ + 1]
    IN  IF r.done THEN Return(r.s, k)
        ELSE IF Throws(Stage(s, k).predicate, r.value) THEN Throw(tested, k)
        ELSE IF Predicate(Stage(s, k).predicate, r.value)
             THEN Yield(tested, k, r.value)
             ELSE FilterTransducer_sync(tested, k)

\* ScanTransducer.sync seeding each consumption with reducer.identity()
ScanTransducer_sync_restarting(s, k) ==
    LET r == next_sync(s, k - 1)
        seed == IF s.pc[k] = "start"
                THEN Reducer_identity(Stage(s, k).reducer)
                ELSE Stage(r.s, k).accumilator
        acc == Reducer_call(Stage(s, k).reducer, seed, r.value)
    IN  IF r.done THEN Return(r.s, k)
        ELSE Yield([r.s EXCEPT !.calls = @ + 1,
                               !.heap[s.chain[k]].accumilator = acc], k, acc)

\* ScanTransducer.sync yielding the fold without storing it in accumilator
ScanTransducer_sync_forgetful(s, k) ==
    LET r == next_sync(s, k - 1)
        acc == Reducer_call(Stage(s, k).reducer, Stage(r.s, k).accumilator, r.value)
    IN  IF r.done THEN Return(r.s, k)
        ELSE Yield([r.s EXCEPT !.calls = @ + 1], k, acc)

ScanTransducer_sync(s, k) ==
    LET r == next_sync(s, k - 1)
        acc == Reducer_call(Stage(s, k).reducer, Stage(r.s, k).accumilator, r.value)
    IN  IF r.done THEN Return(r.s, k)
        ELSE IF Throws(Stage(s, k).reducer, r.value)
             THEN Throw([r.s EXCEPT !.calls = @ + 1], k)
        ELSE Yield([r.s EXCEPT !.calls = @ + 1,
                               !.heap[s.chain[k]].accumilator = acc], k, acc)

\* TakeTransducer.sync without its opening "if (this.count == 0) return"
TakeTransducer_sync_unguarded(s, k) ==
    LET resumed == IF s.pc[k] = "suspended"
                   THEN [s EXCEPT !.heap[s.chain[k]].count = @ - 1]
                   ELSE s
    IN  IF s.pc[k] = "suspended" /\ Stage(resumed, k).count = 0
        THEN Return(IteratorClose(resumed, k - 1), k)
        ELSE LET r == next_sync(resumed, k - 1)
             IN  IF r.done THEN Return(r.s, k) ELSE Yield(r.s, k, r.value)

TakeTransducer_sync(s, k) ==
    IF s.pc[k] = "start" /\ Stage(s, k).count = 0
    THEN Return(s, k)
    ELSE LET resumed == IF s.pc[k] = "suspended"
                        THEN [s EXCEPT !.heap[s.chain[k]].count = @ - 1]
                        ELSE s
         IN  IF s.pc[k] = "suspended" /\ Stage(resumed, k).count = 0
             THEN Return(IteratorClose(resumed, k - 1), k)
             ELSE LET r == next_sync(resumed, k - 1)
                  IN  IF r.done THEN Return(r.s, k) ELSE Yield(r.s, k, r.value)

\* TakeWhileTransducer.sync skipping a failing element instead of returning
RECURSIVE TakeWhileTransducer_sync_skipping(_, _)
TakeWhileTransducer_sync_skipping(s, k) ==
    LET r == next_sync(s, k - 1)
        tested == [r.s EXCEPT !.calls = @ + 1]
    IN  IF r.done THEN Return(r.s, k)
        ELSE IF Predicate(Stage(s, k).predicate, r.value)
             THEN Yield(tested, k, r.value)
             ELSE TakeWhileTransducer_sync_skipping(tested, k)

TakeWhileTransducer_sync(s, k) ==
    LET r == next_sync(s, k - 1)
        tested == [r.s EXCEPT !.calls = @ + 1]
    IN  IF r.done THEN Return(r.s, k)
        ELSE IF Throws(Stage(s, k).predicate, r.value) THEN Throw(tested, k)
        ELSE IF Predicate(Stage(s, k).predicate, r.value)
             THEN Yield(tested, k, r.value)
             ELSE Return(IteratorClose(tested, k - 1), k)

\* next() on the k-th iterator of the chain; the 0-th is the source's
next_sync(s, k) ==
    IF k = 0 THEN Source_next(s)
    ELSE IF s.pc[k] \in {"completed", "threw"} THEN IteratorResult(s, TRUE, Undefined)
    ELSE CASE Stage(s, k).kind = "FirstTransducer"     -> FirstTransducer_sync(s, k)
           [] Stage(s, k).kind = "LastTransducer"      -> LastTransducer_sync(s, k)
           [] Stage(s, k).kind = "MapTransducer"       -> MapTransducer_sync(s, k)
           [] Stage(s, k).kind = "FilterTransducer"    -> FilterTransducer_sync(s, k)
           [] Stage(s, k).kind = "ScanTransducer"      -> ScanTransducer_sync(s, k)
           [] Stage(s, k).kind = "TakeTransducer"      -> TakeTransducer_sync(s, k)
           [] Stage(s, k).kind = "TakeWhileTransducer" -> TakeWhileTransducer_sync(s, k)

(***************************************************************************)
(* The asynchronous generators (the async_ methods): every pull of the    *)
(* upstream is awaited, and the consumer awaits every result.              *)
(***************************************************************************)
RECURSIVE next_async_(_, _)

FirstTransducer_async_(s, k) ==
    IF s.pc[k] = "suspended"
    THEN Return(IteratorClose(s, k - 1), k)
    ELSE LET r == next_async_(s, k - 1)
         IN  IF r.done THEN Return(r.s, k) ELSE Yield(r.s, k, r.value)

RECURSIVE LastTransducer_async__loop(_, _, _)
LastTransducer_async__loop(s, k, last_) ==
    LET r == next_async_(s, k - 1)
    IN  IF r.done
        THEN IF last_ # Undefined THEN Yield(r.s, k, last_) ELSE Return(r.s, k)
        ELSE LastTransducer_async__loop(r.s, k, r.value)

LastTransducer_async_(s, k) ==
    IF s.pc[k] = "suspended"
    THEN Return(s, k)
    ELSE LastTransducer_async__loop(s, k, Undefined)

MapTransducer_async_(s, k) ==
    LET r == next_async_(s, k - 1)
    IN  IF r.done THEN Return(r.s, k)
        ELSE Yield([r.s EXCEPT !.calls = @ + 1], k, Mapper(Stage(s, k).mapper, r.value))

RECURSIVE FilterTransducer_async_(_, _)
FilterTransducer_async_(s, k) ==
    LET r == next_async_(s, k - 1)
        tested == [r.s EXCEPT !.calls = @ + 1]
    IN  IF r.done THEN Return(r.s, k)
        ELSE IF Predicate(Stage(s, k).predicate, r.value)
             THEN Yield(tested, k, r.value)
             ELSE FilterTransducer_async_(tested, k)

ScanTransducer_async_(s, k) ==
    LET r == next_async_(s, k - 1)
        acc == Reducer_call(Stage(s, k).reducer, Stage(r.s, k).accumilator, r.value)
    IN  IF r.done THEN Return(r.s, k)
        ELSE Yield([r.s EXCEPT !.calls = @ + 1,
                               !.heap[s.chain[k]].accumilator = acc], k, acc)

\* TakeTransducer.async_ testing the count only after the next pull
TakeTransducer_async_late(s, k) ==
    IF s.pc[k] = "start" /\ Stage(s, k).count = 0
    THEN Return(s, k)
    ELSE LET resumed == IF s.pc[k] = "suspended"
                        THEN [s EXCEPT !.heap[s.chain[k]].count = @ - 1]
                        ELSE s
             r == next_async_(resumed, k - 1)
         IN  IF r.done THEN Return(r.s, k)
             ELSE IF s.pc[k] = "suspended" /\ Stage(resumed, k).count = 0
                  THEN Return(IteratorClose(r.s, k - 1), k)
                  ELSE Yield(r.s, k, r.value)

TakeTransducer_async_(s, k) ==
    IF s.pc[k] = "start" /\ Stage(s, k).count = 0
    THEN Return(s, k)
    ELSE LET resumed == IF s.pc[k] = "suspended"
                        THEN [s EXCEPT !.heap[s.chain[k]].count = @ - 1]
                        ELSE s
         IN  IF s.pc[k] = "suspended" /\ Stage(resumed, k).count = 0
             THEN Return(IteratorClose(resumed, k - 1), k)
             ELSE LET r == next_async_(resumed, k - 1)
                  IN  IF r.done THEN Return(r.s, k) ELSE Yield(r.s, k, r.value)

TakeWhileTransducer_async_(s, k) ==
    LET r == next_async_(s, k - 1)
        tested == [r.s EXCEPT !.calls = @ + 1]
    IN  IF r.done THEN Return(r.s, k)
        ELSE IF Predicate(Stage(s, k).predicate, r.value)
             THEN Yield(tested, k, r.value)
             ELSE Return(IteratorClose(tested, k - 1), k)

\* next() on the k-th iterator of the chain; the 0-th is the source's
next_async_(s, k) ==
    IF k = 0 THEN Source_next(s)
    ELSE IF s.pc[k] = "completed" THEN IteratorResult(s, TRUE, Undefined)
    ELSE CASE Stage(s, k).kind = "FirstTransducer"     -> FirstTransducer_async_(s, k)
           [] Stage(s, k).kind = "LastTransducer"      -> LastTransducer_async_(s, k)
           [] Stage(s, k).kind = "MapTransducer"       -> MapTransducer_async_(s, k)
           [] Stage(s, k).kind = "FilterTransducer"    -> FilterTransducer_async_(s, k)
           [] Stage(s, k).kind = "ScanTransducer"      -> ScanTransducer_async_(s, k)
           [] Stage(s, k).kind = "TakeTransducer"      -> TakeTransducer_async_(s, k)
           [] Stage(s, k).kind = "TakeWhileTransducer" -> TakeWhileTransducer_async_(s, k)


(***************************************************************************)
(* Facades.  A world is what a chaining call can touch: the heap, the      *)
(* facades and the counters of the source and of the supplied functions.   *)
(***************************************************************************)
NoFacade == [kind |-> "undefined"]

isIterable(instance) == instance.hasIterator

isAsyncIterable(instance) == instance.hasAsyncIterator

\* new Sequence(iterable, transducer = identity())
Sequence_of(w, iterable, transducer) ==
    LET t == IF transducer = Undefined THEN identity(w.heap)
             ELSE [heap |-> w.heap, ref |-> transducer]
    IN  [w EXCEPT !.heap = t.heap,
                  !.facades = Append(@, [kind |-> "Sequence", iterable |-> iterable,
                                         transducer |-> t.ref])]

\* new AsyncSequence(iterable, transducer = identity())
AsyncSequence_of(w, iterable, transducer) ==
    LET t == IF transducer = Undefined THEN identity(w.heap)
             ELSE [heap |-> w.heap, ref |-> transducer]
    IN  [w EXCEPT !.heap = t.heap,
                  !.facades = Append(@, [kind |-> "AsyncSequence", iterable |-> iterable,
                                         transducer |-> t.ref])]

\* the factory: the facade it returns is appended to w.facades
\* the factory pulling one element from the source when handed a transducer
sequence_probing(w, iterable, transducer) ==
    LET mode == IF isIterable(iterable) THEN "sync" ELSE "async"
        probed == IF transducer = Undefined THEN w
                  ELSE [w EXCEPT !.pulls[mode] = @ + 1]
    IN  IF isIterable(iterable) THEN Sequence_of(probed, iterable, transducer)
        ELSE IF isAsyncIterable(iterable) THEN AsyncSequence_of(probed, iterable, transducer)
        ELSE [probed EXCEPT !.facades = Append(@, NoFacade)]

\* typeof iterable == 'function': a source function is a record holding the
\* value a call of it returns
IsFunction(iterable) == "returns" \in DOMAIN iterable

\* the factory testing for the asynchronous capability before the synchronous
sequence_asyncFirst(w, source_, transducer) ==
    LET iterable == IF IsFunction(source_) THEN source_.returns ELSE source_
    IN  IF isAsyncIterable(iterable) THEN AsyncSequence_of(w, iterable, transducer)
        ELSE IF isIterable(iterable) THEN Sequence_of(w, iterable, transducer)
        ELSE [w EXCEPT !.facades = Append(@, NoFacade)]

sequence(w, source_, transducer) ==
    LET iterable == IF IsFunction(source_) THEN source_.returns ELSE source_
    IN  IF transducer = Undefined
        THEN IF isIterable(iterable) THEN Sequence_of(w, iterable, Undefined)
             ELSE IF isAsyncIterable(iterable)
                  THEN AsyncSequence_of(w, iterable, Undefined)
             ELSE [w EXCEPT !.facades = Append(@, NoFacade)]
        ELSE IF isIterable(iterable) THEN Sequence_of(w, iterable, transducer)
             ELSE IF isAsyncIterable(iterable)
                  THEN AsyncSequence_of(w, iterable, transducer)
             ELSE [w EXCEPT !.facades = Append(@, NoFacade)]

\* a chaining method: build the transducer with make, hand it to the factory
Chained(w, this, made) ==
    sequence([w EXCEPT !.heap = made.heap], w.facades[this].iterable, made.ref)

\* Sequence.map starting a transducer of its own instead of extending
\* this.transducer
Sequence_map_detached(w, this, mapper) ==
    LET fresh == identity(w.heap)
    IN  Chained(w, this, Transducer_map(fresh.heap, fresh.ref, mapper))

Sequence_map(w, this, mapper) ==
    Chained(w, this, Transducer_map(w.heap, w.facades[this].transducer, mapper))
Sequence_filter(w, this, predicate) ==
    Chained(w, this, Transducer_filter(w.heap, w.facades[this].transducer, predicate))
Sequence_find(w, this, predicate) ==
    Chained(w, this, Transducer_find(w.heap, w.facades[this].transducer, predicate))
Sequence_first(w, this) ==
    Chained(w, this, Transducer_first(w.heap, w.facades[this].transducer))
Sequence_last(w, this) ==
    Chained(w, this, Transducer_first(w.heap, w.facades[this].transducer))
Sequence_take(w, this, count) ==
    Chained(w, this, Transducer_take(w.heap, w.facades[this].transducer, count))
Sequence_takeWhile(w, this, predicate) ==
    Chained(w, this, Transducer_takeWhile(w.heap, w.facades[this].transducer, predicate))
Sequence_scan(w, this, reducer) ==
    Chained(w, this, Transducer_scan(w.heap, w.facades[this].transducer, reducer))
Sequence_reduce(w, this, reducer) ==
    Chained(w, this, Transducer_reduce(w.heap, w.facades[this].transducer, reducer))

AsyncSequence_map(w, this, mapper) ==
    Chained(w, this, Transducer_map(w.heap, w.facades[this].transducer, mapper))
AsyncSequence_filter(w, this, predicate) ==
    Chained(w, this, Transducer_filter(w.heap, w.facades[this].transducer, predicate))
AsyncSequence_find(w, this, predicate) ==
    Chained(w, this, Transducer_find(w.heap, w.facades[this].transducer, predicate))
AsyncSequence_first(w, this) ==
    Chained(w, this, Transducer_first(w.heap, w.facades[this].transducer))
AsyncSequence_last(w, this) ==
    Chained(w, this, Transducer_last(w.heap, w.facades[this].transducer))
AsyncSequence_take(w, this, count) ==
    Chained(w, this, Transducer_take(w.heap, w.facades[this].transducer, count))
AsyncSequence_takeWhile(w, this, predicate) ==
    Chained(w, this, Transducer_takeWhile(w.heap, w.facades[this].transducer, predicate))
AsyncSequence_scan(w, this, reducer) ==
    Chained(w, this, Transducer_scan(w.heap, w.facades[this].transducer, reducer))
AsyncSequence_reduce(w, this, reducer) ==
    Chained(w, this, Transducer_reduce(w.heap, w.facades[this].transducer, reducer))

(***************************************************************************)
(* Consumption.  An iterator record holds the generator chain obtained     *)
(* from a facade (or from a transducer driven directly) and what the       *)
(* consumer has received from it so far.                                   *)
(***************************************************************************)
Modes == {"sync", "async"}

Idle == [state |-> "idle", facade |-> 0, items |-> <<>>, chain |-> <<>>,
         pc |-> <<>>, pos |-> 0, out |-> <<>>]

\* the generator chain, created and not yet run
Open(this, iterable, chain) ==
    [state |-> "open", facade |-> this, items |-> iterable.items, chain |-> chain,
     pc |-> [k \in 1..Len(chain) |-> "start"], pos |-> 0, out |-> <<>>]

\* Sequence[Symbol.iterator]()
Sequence_iterator(h, fs, this) ==
    Open(this, fs[this].iterable, sync(h, fs[this].transducer))

\* AsyncSequence[Symbol.asyncIterator]()
AsyncSequence_asyncIterator(h, fs, this) ==
    Open(this, fs[this].iterable, async_(h, fs[this].transducer))

Driving(mode) ==
    [heap |-> heap, items |-> it[mode].items, chain |-> it[mode].chain,
     pc |-> it[mode].pc, pos |-> it[mode].pos,
     pulls |-> pulls[mode], calls |-> calls[mode]]

\* what one answered pull leaves behind
Pulled(mode, r) ==
    /\ heap' = r.s.heap
    /\ it' = [it EXCEPT ![mode] =
                [@ EXCEPT !.state = IF Thrown(r.s) THEN "failed"
                                    ELSE IF r.done THEN "done" ELSE "open",
                          !.pc = r.s.pc, !.pos = r.s.pos,
                          !.out = IF r.done THEN @ ELSE Append(@, r.value)]]
    /\ pulls' = [pulls EXCEPT ![mode] = r.s.pulls]
    /\ calls' = [calls EXCEPT ![mode] = r.s.calls]

World == [heap |-> heap, facades |-> facades, pulls |-> pulls, calls |-> calls]

Receivers(kind) == {f \in 1..Len(facades) : facades[f].kind = kind}

\* the world a chaining call returns, and the record of the call
Chain(w, this, op, arg) ==
    /\ Len(facades) < MaxFacades
    /\ heap' = w.heap
    /\ facades' = w.facades
    /\ pulls' = w.pulls
    /\ calls' = w.calls
    /\ history' = Append(history, [from |-> this, op |-> op, arg |-> arg])
    /\ UNCHANGED <<source, it, runs, built, rng>>

(***************************************************************************)
(* Actions: the chaining calls.                                            *)
(***************************************************************************)
SeqMap ==
    \E this \in Receivers("Sequence"), mapper \in Mappers :
        Chain(Sequence_map(World, this, mapper), this, "map", mapper)
SeqFilter ==
    \E this \in Receivers("Sequence"), predicate \in Predicates :
        Chain(Sequence_filter(World, this, predicate), this, "filter", predicate)
SeqFind ==
    \E this \in Receivers("Sequence"), predicate \in Predicates :
        Chain(Sequence_find(World, this, predicate), this, "find", predicate)
SeqFirst ==
    \E this \in Receivers("Sequence") :
        Chain(Sequence_first(World, this), this, "first", "")
SeqLast ==
    \E this \in Receivers("Sequence") :
        Chain(Sequence_last(World, this), this, "last", "")
SeqTake ==
    \E this \in Receivers("Sequence"), count \in 0..MaxCount :
        Chain(Sequence_take(World, this, count), this, "take", count)
SeqTakeWhile ==
    \E this \in Receivers("Sequence"), predicate \in Predicates :
        Chain(Sequence_takeWhile(World, this, predicate), this, "takeWhile", predicate)
SeqScan ==
    \E this \in Receivers("Sequence"), reducer \in Reducers :
        Chain(Sequence_scan(World, this, reducer), this, "scan", reducer)
SeqReduce ==
    \E this \in Receivers("Sequence"), reducer \in Reducers :
        Chain(Sequence_reduce(World, this, reducer), this, "reduce", reducer)

AsyncMap ==
    \E this \in Receivers("AsyncSequence"), mapper \in Mappers :
        Chain(AsyncSequence_map(World, this, mapper), this, "map", mapper)
AsyncFilter ==
    \E this \in Receivers("AsyncSequence"), predicate \in Predicates :
        Chain(AsyncSequence_filter(World, this, predicate), this, "filter", predicate)
AsyncFind ==
    \E this \in Receivers("AsyncSequence"), predicate \in Predicates :
        Chain(AsyncSequence_find(World, this, predicate), this, "find", predicate)
AsyncFirst ==
    \E this \in Receivers("AsyncSequence") :
        Chain(AsyncSequence_first(World, this), this, "first", "")
AsyncLast ==
    \E this \in Receivers("AsyncSequence") :
        Chain(AsyncSequence_last(World, this), this, "last", "")
AsyncTake ==
    \E this \in Receivers("AsyncSequence"), count \in 0..MaxCount :
        Chain(AsyncSequence_take(World, this, count), this, "take", count)
AsyncTakeWhile ==
    \E this \in Receivers("AsyncSequence"), predicate \in Predicates :
        Chain(AsyncSequence_takeWhile(World, this, predicate), this, "takeWhile", predicate)
AsyncScan ==
    \E this \in Receivers("AsyncSequence"), reducer \in Reducers :
        Chain(AsyncSequence_scan(World, this, reducer), this, "scan", reducer)
AsyncReduce ==
    \E this \in Receivers("AsyncSequence"), reducer \in Reducers :
        Chain(AsyncSequence_reduce(World, this, reducer), this, "reduce", reducer)

(***************************************************************************)
(* Actions: consumption through the iteration protocols.  A consumer asks  *)
(* a facade for an iterator, then pulls until the iterator reports done.   *)
(***************************************************************************)
Iterate ==
    \E this \in Receivers("Sequence") :
        /\ runs < MaxRuns
        /\ it["sync"].state # "open"
        /\ it' = [it EXCEPT !["sync"] = Sequence_iterator(heap, facades, this)]
        /\ runs' = runs + 1
        /\ UNCHANGED <<source, heap, facades, history, pulls, calls, built, rng>>

AsyncIterate ==
    \E this \in Receivers("AsyncSequence") :
        /\ runs < MaxRuns
        /\ it["async"].state # "open"
        /\ it' = [it EXCEPT !["async"] = AsyncSequence_asyncIterator(heap, facades, this)]
        /\ runs' = runs + 1
        /\ UNCHANGED <<source, heap, facades, history, pulls, calls, built, rng>>

Next_sync ==
    /\ it["sync"].state = "open"
    /\ Pulled("sync", next_sync(Driving("sync"), Len(it["sync"].chain)))
    /\ UNCHANGED <<source, facades, history, runs, built, rng>>

Next_async ==
    /\ it["async"].state = "open"
    /\ Pulled("async", next_async_(Driving("async"), Len(it["async"].chain)))
    /\ UNCHANGED <<source, facades, history, runs, built, rng>>

(***************************************************************************)
(* Spec: sequence(source), then any chaining calls and consumptions.       *)
(***************************************************************************)
(***************************************************************************)
(* iterate and range.  sequence() calls the generator function it is       *)
(* handed, so each returns a Sequence over one generator object; the       *)
(* generator's body runs pull by pull.  The numbers here are integers.     *)
(***************************************************************************)
Abs(n) == IF n < 0 THEN 0 - n ELSE n

\* subtract(a)(b)
subtract(a, b) == b - a

\* the functions range hands to iterate: increment, add(by), subtract(by)
Generator(generator, by, value) ==
    CASE generator = "increment" -> increment(value)
      [] generator = "add"       -> add(by, value)
      [] generator = "subtract"  -> subtract(by, value)

\* iterate(generator, value): the generator object, not yet run
iterate(generator, by, value) ==
    [generator |-> generator, by |-> by, value |-> value, pc |-> "start"]

\* one pull: while (true) { yield value; value = generator(value); }
iterate_next(g) ==
    IF g.pc = "start"
    THEN [g |-> [g EXCEPT !.pc = "suspended"], value |-> g.value]
    ELSE LET value == Generator(g.generator, g.by, g.value)
         IN  [g |-> [g EXCEPT !.value = value], value |-> value]

\* range(start, end, step): the generator object, not yet run
range(start, end, step) ==
    [start |-> start, end |-> end, step |-> step, pc |-> "start", inner |-> <<>>]

\* the body of range handing step, sign and all, to add and subtract
range_inner_signed(r) ==
    IF r.end = Undefined THEN iterate("increment", 1, r.start)
    ELSE IF r.end < r.start THEN iterate("subtract", r.step, r.start)
         ELSE iterate("add", r.step, r.start)

\* the sequence the body of range delegates to (yield*)
range_inner(r) ==
    IF r.end = Undefined THEN iterate("increment", 1, r.start)
    ELSE LET absoluteStep == Abs(r.step)
         IN  IF r.end < r.start THEN iterate("subtract", absoluteStep, r.start)
             ELSE iterate("add", absoluteStep, r.start)

\* the predicates of range excluding the bound: n => n > end, n => n < end
range_while_strict(r, n) ==
    IF r.end = Undefined THEN TRUE
    ELSE IF r.end < r.start THEN n > r.end
    ELSE n < r.end

\* the predicate handed to takeWhile: n => n >= end, n => n <= end
range_while(r, n) ==
    IF r.end = Undefined THEN TRUE
    ELSE IF r.end < r.start THEN n >= r.end
    ELSE n <= r.end

\* one pull on the sequence range returned
range_next(r) ==
    IF r.pc = "completed" THEN [r |-> r, done |-> TRUE, value |-> Undefined]
    ELSE LET started == IF r.pc = "start"
                        THEN [r EXCEPT !.pc = "suspended", !.inner = <<range_inner(r)>>]
                        ELSE r
             n == iterate_next(started.inner[1])
         IN  IF range_while(r, n.value)
             THEN [r |-> [started EXCEPT !.inner = <<n.g>>], done |-> FALSE,
                   value |-> n.value]
             ELSE [r |-> [started EXCEPT !.pc = "completed", !.inner = <<n.g>>],
                   done |-> TRUE, value |-> Undefined]

NoRange == [state |-> "idle", range |-> <<>>, out |-> <<>>]

Capabilities == {<<TRUE, FALSE>>, <<FALSE, TRUE>>}

Sources ==
    {[items |-> i, hasIterator |-> c[1], hasAsyncIterator |-> c[2]] :
        i \in Items, c \in Capabilities}

Zero == [m \in Modes |-> 0]

Init ==
    /\ source \in Sources
    /\ LET w == sequence([heap |-> <<>>, facades |-> <<>>, pulls |-> Zero, calls |-> Zero],
                         source, Undefined)
       IN  /\ heap = w.heap
           /\ facades = w.facades
           /\ pulls = w.pulls
           /\ calls = w.calls
    /\ history = <<[from |-> 0, op |-> "sequence", arg |-> ""]>>
    /\ it = [m \in Modes |-> Idle]
    /\ runs = 0
    /\ built = [m \in Modes |-> Undefined]
    /\ rng = NoRange

Next ==
    \/ SeqMap \/ SeqFilter \/ SeqFind \/ SeqFirst \/ SeqLast
    \/ SeqTake \/ SeqTakeWhile \/ SeqScan \/ SeqReduce
    \/ AsyncMap \/ AsyncFilter \/ AsyncFind \/ AsyncFirst \/ AsyncLast
    \/ AsyncTake \/ AsyncTakeWhile \/ AsyncScan \/ AsyncReduce
    \/ Iterate \/ AsyncIterate \/ Next_sync \/ Next_async

Spec == Init /\ [][Next]_vars

(***************************************************************************)
(* SpecDual: one transducer definition built twice from identity(), call   *)
(* by call; one instance is then driven with sync and drained by           *)
(* syncArray, the other driven with async_ over the same elements and      *)
(* drained by asyncArray.                                                  *)
(***************************************************************************)
RECURSIVE syncArray(_, _)
syncArray(s, result) ==
    LET r == next_sync(s, Len(s.chain))
    IN  IF r.done THEN [s |-> r.s, result |-> result]
        ELSE syncArray(r.s, Append(result, r.value))

RECURSIVE asyncArray(_, _)
asyncArray(s, result) ==
    LET r == next_async_(s, Len(s.chain))
    IN  IF r.done THEN [s |-> r.s, result |-> result]
        ELSE asyncArray(r.s, Append(result, r.value))

\* the state a generator chain starts in, for the drains
Fresh(mode, chain) ==
    [heap |-> heap, items |-> source.items, chain |-> chain,
     pc |-> [k \in 1..Len(chain) |-> "start"], pos |-> 0,
     pulls |-> pulls[mode], calls |-> calls[mode]]

Drained(mode, d) ==
    /\ heap' = d.s.heap
    /\ it' = [it EXCEPT ![mode] =
                [state |-> "done", facade |-> 0, items |-> d.s.items,
                 chain |-> d.s.chain, pc |-> d.s.pc, pos |-> d.s.pos,
                 out |-> d.result]]
    /\ pulls' = [pulls EXCEPT ![mode] = d.s.pulls]
    /\ calls' = [calls EXCEPT ![mode] = d.s.calls]

\* syncArray(transducer.sync(iterable))
SyncArray ==
    /\ it["sync"].state = "idle"
    /\ Drained("sync", syncArray(Fresh("sync", sync(heap, built["sync"])), <<>>))
    /\ UNCHANGED <<source, facades, history, runs, built, rng>>

\* asyncArray(transducer.async_(asyncIterable))
AsyncArray ==
    /\ it["async"].state = "idle"
    /\ Drained("async", asyncArray(Fresh("async", async_(heap, built["async"])), <<>>))
    /\ UNCHANGED <<source, facades, history, runs, built, rng>>

DualCalls ==
    {[from |-> 0, op |-> "map", arg |-> m] : m \in Mappers}
    \cup {[from |-> 0, op |-> o, arg |-> p] : o \in {"filter", "takeWhile"}, p \in Predicates}
    \cup {[from |-> 0, op |-> o, arg |-> ""] : o \in {"first", "last"}}
    \cup {[from |-> 0, op |-> "take", arg |-> n] : n \in 0..MaxCount}
    \cup {[from |-> 0, op |-> "scan", arg |-> r] : r \in Reducers}

Apply(h, this, call) ==
    CASE call.op = "map"       -> Transducer_map(h, this, call.arg)
      [] call.op = "filter"    -> Transducer_filter(h, this, call.arg)
      [] call.op = "first"     -> Transducer_first(h, this)
      [] call.op = "last"      -> Transducer_last(h, this)
      [] call.op = "take"      -> Transducer_take(h, this, call.arg)
      [] call.op = "takeWhile" -> Transducer_takeWhile(h, this, call.arg)
      [] call.op = "scan"      -> Transducer_scan(h, this, call.arg)
      [] call.op = "find"      -> Transducer_find(h, this, call.arg)
      [] call.op = "reduce"    -> Transducer_reduce(h, this, call.arg)

\* the same chaining call made on both instances
Define ==
    \E call \in DualCalls :
        /\ Len(history) < MaxStages
        /\ \A m \in Modes : it[m].state = "idle"
        /\ LET tS == Apply(heap, built["sync"], call)
               tA == Apply(tS.heap, built["async"], call)
           IN  /\ heap' = tA.heap
               /\ built' = [built EXCEPT !["sync"] = tS.ref, !["async"] = tA.ref]
        /\ history' = Append(history, call)
        /\ UNCHANGED <<source, facades, it, pulls, calls, runs, rng>>

InitDual ==
    /\ source \in {s \in Sources : s.hasIterator}
    /\ LET tS == identity(<<>>)
           tA == identity(tS.heap)
       IN  /\ heap = tA.heap
           /\ built = [m \in Modes |-> IF m = "sync" THEN tS.ref ELSE tA.ref]
    /\ history = <<>>
    /\ facades = <<>>
    /\ it = [m \in Modes |-> Idle]
    /\ pulls = Zero
    /\ calls = Zero
    /\ runs = 0
    /\ rng = NoRange

NextDual == Define \/ SyncArray \/ AsyncArray

SpecDual == InitDual /\ [][NextDual]_vars

(***************************************************************************)
(* Reference notions the claims are stated with.                           *)
(***************************************************************************)
Min(a, b) == IF a < b THEN a ELSE b

IsPrefix(p, s) == Len(p) <= Len(s) /\ p = SubSeq(s, 1, Len(p))

Holds(predicate, s) == SelectSeq(s, LAMBDA x : Predicate(predicate, x))

\* index of the first element failing the predicate, Len(s) + 1 if none
FirstFailing(predicate, s) ==
    CHOOSE j \in 1..(Len(s) + 1) :
        /\ \A i \in 1..(j - 1) : Predicate(predicate, s[i])
        /\ j <= Len(s) => ~Predicate(predicate, s[j])

\* index of the first element satisfying the predicate, Len(s) + 1 if none
FirstHolding(predicate, s) ==
    CHOOSE j \in 1..(Len(s) + 1) :
        /\ \A i \in 1..(j - 1) : ~Predicate(predicate, s[i])
        /\ j <= Len(s) => Predicate(predicate, s[j])

RECURSIVE FoldLeft(_, _, _)
FoldLeft(reducer, acc, s) ==
    IF s = <<>> THEN acc
    ELSE FoldLeft(reducer, Reducer_call(reducer, acc, Head(s)), Tail(s))

Fold(reducer, s) == FoldLeft(reducer, Reducer_identity(reducer), s)

\* mode m is consuming, for the first time anywhere, the facade S.op(...)
\* made from the root facade S = sequence(source)
FirstRun(m, op) ==
    /\ it[m].state # "idle"
    /\ runs = 1
    /\ history[it[m].facade].op = op
    /\ history[it[m].facade].from = 1

Arg(m) == history[it[m].facade].arg

(***************************************************************************)
(* The claims.                                                             *)
(***************************************************************************)

\* C1: consuming sequence(S).last(), for a non-empty synchronous S whose
\* final element is not undefined, consumes all of S and yields exactly its
\* final element.
C1_LastYieldsFinalElement ==
    (/\ FirstRun("sync", "last")
     /\ it["sync"].state = "done"
     /\ source.items # <<>>
     /\ source.items[Len(source.items)] # Undefined)
    => /\ it["sync"].out = <<source.items[Len(source.items)]>>
       /\ it["sync"].pos = Len(source.items)

\* C2: consuming S.take(n) with a fresh Take stage yields the first
\* min(n, length(S)) elements of S in order, never obtains more than n
\* elements from S, and with n = 0 makes no pull on S at all.
C2_TakeYieldsFirstN ==
    \A m \in Modes :
        FirstRun(m, "take") =>
            /\ IsPrefix(it[m].out, source.items)
            /\ it[m].pos <= Arg(m)
            /\ Arg(m) = 0 => pulls[m] = 0
            /\ it[m].state = "done" =>
                  it[m].out = SubSeq(source.items, 1, Min(Arg(m), Len(source.items)))

\* a take(n) with 1 <= n < length(S) has been consumed to the end, and
\* a take(0) elsewhere is covered by the formula's third conjunct
C2_Witness ==
    \E m \in Modes :
        /\ FirstRun(m, "take")
        /\ it[m].state = "done"
        /\ Arg(m) >= 1
        /\ Arg(m) < Len(source.items)
        /\ Len(it[m].out) = Arg(m)

\* C3: a transducer definition built twice, one instance drained through
\* sync and the other through async_ over the same elements, gives the same
\* output and stops pulling the source at the same element.
C3_SyncAsyncAgree ==
    (it["sync"].state = "done" /\ it["async"].state = "done")
    => /\ it["sync"].out = it["async"].out
       /\ it["sync"].pos = it["async"].pos
       /\ pulls["sync"] = pulls["async"]

\* both instances of a two-stage composite were drained, gave output, and
\* stopped before the end of the source
C3_Witness ==
    /\ it["sync"].state = "done"
    /\ it["async"].state = "done"
    /\ Len(history) = 2
    /\ it["async"].out # <<>>
    /\ it["async"].pos < Len(source.items)

\* C4: consuming S.takeWhile(p) yields the maximal prefix of S on which p
\* holds; the first failing element is pulled but not yielded and nothing
\* after it is pulled.
C4_TakeWhileMaximalPrefix ==
    \A m \in Modes :
        FirstRun(m, "takeWhile") =>
            LET j == FirstFailing(Arg(m), source.items)
            IN  /\ IsPrefix(it[m].out, source.items)
                /\ Len(it[m].out) <= j - 1
                /\ pulls[m] <= j
                /\ it[m].state = "done" =>
                      /\ it[m].out = SubSeq(source.items, 1, j - 1)
                      /\ pulls[m] = j
                      /\ it[m].pos = Min(j, Len(source.items))

\* a takeWhile stopped at a failing element that has elements after it
C4_Witness ==
    \E m \in Modes :
        /\ FirstRun(m, "takeWhile")
        /\ it[m].state = "done"
        /\ it[m].out # <<>>
        /\ it[m].pos < Len(source.items)

\* C5: consuming S.filter(p) over a finite synchronous S yields exactly the
\* elements of S for which p holds, each once and in their original order.
C5_FilterYieldsMatching ==
    FirstRun("sync", "filter") =>
        /\ it["sync"].out =
              Holds(Arg("sync"), SubSeq(source.items, 1, it["sync"].pos))
        /\ it["sync"].state = "done" =>
              /\ it["sync"].pos = Len(source.items)
              /\ it["sync"].out = Holds(Arg("sync"), source.items)

\* a filter was consumed to the end, kept some elements and dropped others
C5_Witness ==
    /\ FirstRun("sync", "filter")
    /\ it["sync"].state = "done"
    /\ it["sync"].out # <<>>
    /\ Len(it["sync"].out) < Len(source.items)

\* C6: consuming S.first() yields exactly the first element of a non-empty
\* S and pulls no second one; on an empty S it yields nothing and ends.
C6_FirstYieldsHead ==
    \A m \in Modes :
        FirstRun(m, "first") =>
            /\ it[m].pos <= 1
            /\ pulls[m] <= 1
            /\ it[m].state = "done" =>
                  IF source.items = <<>>
                  THEN it[m].out = <<>>
                  ELSE it[m].out = <<source.items[1]>> /\ it[m].pos = 1

\* a first() was consumed to the end over a source of several elements
C6_Witness ==
    \E m \in Modes :
        /\ FirstRun(m, "first")
        /\ it[m].state = "done"
        /\ Len(source.items) >= 2
        /\ Len(it[m].out) = 1

\* C7 as stated: consuming S.reduce(r) over a non-empty S with a fresh
\* reducer stage yields exactly one element, the left fold of r.call over
\* S seeded with r.identity().
C7_ReduceYieldsFold ==
    \A m \in Modes :
        (FirstRun(m, "reduce") /\ it[m].state = "done" /\ source.items # <<>>)
        => it[m].out = <<Fold(Arg(m), source.items)>>

\* C7 as amended: the fold is yielded as the single element when it is not
\* undefined; when it is undefined nothing is yielded.  Either way all of S
\* is consumed, and the sum of [1,2,3,4] is yielded as 10.
C7_ReduceYieldsDefinedFold ==
    \A m \in Modes :
        (FirstRun(m, "reduce") /\ source.items # <<>>) =>
            /\ it[m].state = "open" => it[m].out = <<>> \/ it[m].pos = Len(source.items)
            /\ it[m].state = "done" =>
                  /\ it[m].pos = Len(source.items)
                  /\ it[m].out = IF Fold(Arg(m), source.items) # Undefined
                               THEN <<Fold(Arg(m), source.items)>>
                               ELSE <<>>
                  /\ (Arg(m) = "sum" /\ source.items = <<1, 2, 3, 4>>)
                        => it[m].out = <<10>>

\* the sum of [1,2,3,4] was reduced to the end
C7_Witness ==
    \E m \in Modes :
        /\ FirstRun(m, "reduce")
        /\ it[m].state = "done"
        /\ Arg(m) = "sum"
        /\ source.items = <<1, 2, 3, 4>>
        /\ it[m].out = <<10>>

\* C8: consuming S.scan(r) with a fresh Scan stage yields one output per
\* input element, the k-th being the left fold of r.call over the first k
\* elements seeded with r.identity(); the sum over [1,2,3] gives [1,3,6].
C8_ScanYieldsRunningFold ==
    \A m \in Modes :
        FirstRun(m, "scan") =>
            /\ Len(it[m].out) = it[m].pos
            /\ \A k \in 1..Len(it[m].out) :
                  it[m].out[k] = Fold(Arg(m), SubSeq(source.items, 1, k))
            /\ it[m].state = "done" =>
                  /\ Len(it[m].out) = Len(source.items)
                  /\ (Arg(m) = "sum" /\ source.items = <<1, 2, 3>>)
                        => it[m].out = <<1, 3, 6>>

\* the running sum of [1,2,3] was consumed to the end
C8_Witness ==
    \E m \in Modes :
        /\ FirstRun(m, "scan")
        /\ it[m].state = "done"
        /\ Arg(m) = "sum"
        /\ source.items = <<1, 2, 3>>
        /\ it[m].out = <<1, 3, 6>>

\* C9: consuming S.find(p) yields at most one element: the first element
\* of S satisfying p, with nothing pulled after it, or nothing when no
\* element satisfies p.
C9_FindYieldsFirstMatch ==
    \A m \in Modes :
        FirstRun(m, "find") =>
            LET j == FirstHolding(Arg(m), source.items)
            IN  /\ Len(it[m].out) <= 1
                /\ pulls[m] <= j
                /\ it[m].pos <= Min(j, Len(source.items))
                /\ it[m].state = "done" =>
                      /\ pulls[m] = j
                      /\ it[m].out = IF j <= Len(source.items)
                                   THEN <<source.items[j]>>
                                   ELSE <<>>

\* a find ended on a match that is neither the first nor the last element
C9_Witness ==
    \E m \in Modes :
        /\ FirstRun(m, "find")
        /\ it[m].state = "done"
        /\ Len(it[m].out) = 1
        /\ 1 < it[m].pos
        /\ it[m].pos < Len(source.items)

\* C10: a chaining call (a step that adds a facade) pulls nothing from the
\* source and invokes no mapper, predicate or reducer fold step.
C10_ChainingPullsNothing ==
    [][facades' # facades => (pulls' = pulls /\ calls' = calls)]_vars

\* chaining calls were made, no iterator was asked for, nothing was pulled
C10_Witness ==
    /\ Len(facades) >= 2
    /\ runs = 0
    /\ pulls = Zero
    /\ calls = Zero

(***************************************************************************)
(* SpecReuse: facades over one re-iterable array, derived from one another *)
(* by chaining calls and each spread into an array ([...facade]) any       *)
(* number of times.  The stage instances live on the heap, so what one     *)
(* consumption leaves in a stage is what the next one finds there.         *)
(***************************************************************************)
MaxShared == 3
MaxSpreads == 2

\* the world a chaining call returns, among the facades that share stages
Derived(w, this, op, arg) ==
    /\ Len(facades) < MaxShared
    /\ heap' = w.heap
    /\ facades' = w.facades
    /\ pulls' = w.pulls
    /\ calls' = w.calls
    /\ history' = Append(history, [from |-> this, op |-> op, arg |-> arg])
    /\ UNCHANGED <<source, it, runs, built, rng>>

\* facade.take(count), count >= 1
ReuseTake ==
    \E this \in Receivers("Sequence"), count \in 1..MaxCount :
        Derived(Sequence_take(World, this, count), this, "take", count)

\* facade.map(mapper)
ReuseMap ==
    \E this \in Receivers("Sequence"), mapper \in Mappers :
        Derived(Sequence_map(World, this, mapper), this, "map", mapper)

\* facade.scan(Sum)
ReuseScan ==
    \E this \in Receivers("Sequence") :
        Derived(Sequence_scan(World, this, "sum"), this, "scan", "sum")

\* facade.first()
ReuseFirst ==
    \E this \in Receivers("Sequence") :
        Derived(Sequence_first(World, this), this, "first", "")

\* [...facade]: facade[Symbol.iterator]() driven until it is done
Spread ==
    \E this \in Receivers("Sequence") :
        /\ runs < MaxSpreads
        /\ LET opened == Sequence_iterator(heap, facades, this)
               d == syncArray(Fresh("sync", opened.chain), <<>>)
           IN  /\ heap' = d.s.heap
               /\ it' = [it EXCEPT !["sync"] =
                           [opened EXCEPT !.state = "done", !.pc = d.s.pc,
                                          !.pos = d.s.pos, !.out = d.result]]
               /\ pulls' = [pulls EXCEPT !["sync"] = d.s.pulls]
               /\ calls' = [calls EXCEPT !["sync"] = d.s.calls]
        /\ runs' = runs + 1
        /\ UNCHANGED <<source, facades, history, built, rng>>

\* the arrays the facades are built over: [1, ..., n] and the spec's examples
Counting == {[k \in 1..n |-> k] : n \in 0..MaxLen} \cup Examples

InitReuse ==
    /\ Init
    /\ source.hasIterator
    /\ source.items \in Counting

NextReuse == ReuseTake \/ ReuseMap \/ ReuseScan \/ ReuseFirst \/ Spread

SpecReuse == InitReuse /\ [][NextReuse]_vars

\* the stage instances facade f drives, source side first
Stages(f) == sync(heap, facades[f].transducer)

\* facade f holds a Take stage whose count has been run down to zero
Exhausted(f) ==
    \E k \in 1..Len(Stages(f)) :
        /\ heap[Stages(f)[k]].kind = "TakeTransducer"
        /\ heap[Stages(f)[k]].count = 0

\* this step is a whole consumption of facade f
Spreads(f) == runs' = runs + 1 /\ it'["sync"].facade = f

(***************************************************************************)
(* C11: once a facade holding take(n), n >= 1, has been consumed to the    *)
(* end over a source of at least n elements, so that the Take count is     *)
(* zero, every later consumption of that facade yields nothing, pulls      *)
(* nothing from the source, and leaves the count at zero.                  *)
(***************************************************************************)
C11_SpentTakeStaysEmpty ==
    [][\A f \in 1..Len(facades) :
          (Spreads(f) /\ Exhausted(f))
              => /\ it'["sync"].out = <<>>
                 /\ pulls' = pulls
                 /\ Exhausted(f)']_vars

C11_Witness ==
    LET f == it["sync"].facade
    IN  /\ runs = 2
        /\ it["sync"].state = "done"
        /\ history[f].op = "take" /\ history[f].from = 1
        /\ history[f].arg = 2
        /\ Len(source.items) > 2
        /\ Exhausted(f)
        /\ it["sync"].out = <<>>
        /\ pulls["sync"] = 2

\* the facade S.scan(r) made from the root facade S
Scanning(f) == history[f].op = "scan" /\ history[f].from = 1

\* the accumulator held by the Scan stage of such a facade
Accumulator(f) == heap[Stages(f)[1]].accumilator

(***************************************************************************)
(* C17: the accumulator of a Scan stage lives in the stage instance and    *)
(* is carried from one consumption to the next: every consumption of       *)
(* S.scan(r) over the re-iterable S yields the running folds of S seeded   *)
(* with the accumulator the previous consumption left, and leaves the      *)
(* last of them in the accumulator (sum over [1, 2, 3]: [1, 3, 6], then    *)
(* [7, 9, 12]).                                                            *)
(***************************************************************************)
C17_ScanAccumulatorPersists ==
    [][\A f \in 1..Len(facades) :
          (Spreads(f) /\ Scanning(f))
              => LET S == source.items
                     out == it'["sync"].out
                 IN  /\ Len(out) = Len(S)
                     /\ \A k \in 1..Len(S) :
                            out[k] = FoldLeft(history[f].arg, Accumulator(f),
                                              SubSeq(S, 1, k))
                     /\ Accumulator(f)' = FoldLeft(history[f].arg, Accumulator(f), S)]_vars

C17_Witness ==
    /\ runs = 2
    /\ source.items = <<1, 2, 3>>
    /\ Scanning(it["sync"].facade)
    /\ it["sync"].out = <<7, 9, 12>>
    /\ Accumulator(it["sync"].facade) = 12

\* the facade F = S.take(n) made from the root facade S, with n <= length(S)
Taking(f) ==
    /\ history[f].op = "take" /\ history[f].from = 1
    /\ history[f].arg <= Len(source.items)

\* facade g was derived from facade f by chaining calls named in ops only
RECURSIVE Through(_, _, _)
Through(g, f, ops) ==
    /\ g > f
    /\ history[g].op \in ops
    /\ history[g].from = f \/ Through(history[g].from, f, ops)

\* the chaining methods whose stage pulls its input to the end
Pervasive == {"map", "scan"}

AllMethods ==
    {"map", "filter", "find", "first", "last", "take", "takeWhile", "scan", "reduce"}

\* a chaining call leaves every facade and every stage as it was, and the
\* facade it returns has the receiver's source and drives the receiver's
\* stage instances followed by the new ones
ChainingShares ==
    facades' # facades
        => LET this == history'[Len(history')].from
               made == Len(facades')
               driven == sync(heap', facades'[made].transducer)
           IN  /\ SubSeq(facades', 1, Len(facades)) = facades
               /\ SubSeq(heap', 1, Len(heap)) = heap
               /\ facades'[made].iterable = facades[this].iterable
               /\ IsPrefix(Stages(this), driven)
               /\ \A k \in (Len(Stages(this)) + 1)..Len(driven) :
                      driven[k] > Len(heap)

\* C19 as stated: consuming any facade derived from F = S.take(n) to the end
\* runs F's count down to zero.
C19_AnyDerivedExhausts ==
    [][/\ ChainingShares
       /\ \A f \in 1..Len(facades), g \in 1..Len(facades) :
              (Spreads(g) /\ Taking(f) /\ Through(g, f, AllMethods))
                  => Exhausted(f)']_vars

(***************************************************************************)
(* C19: a chaining call leaves the receiver's source and transducer as     *)
(* they were and returns a facade that drives the receiver's own stage     *)
(* instances.  For F = S.take(n), length(S) >= n >= 1, consuming to the    *)
(* end a facade derived from F by map or scan runs F's count down to zero, *)
(* and F consumed with its count at zero yields nothing.                   *)
(***************************************************************************)
C19_PervasiveDerivedExhausts ==
    [][/\ ChainingShares
       /\ \A f \in 1..Len(facades), g \in 1..Len(facades) :
              (Spreads(g) /\ Taking(f) /\ Through(g, f, Pervasive))
                  => Exhausted(f)'
       /\ \A f \in 1..Len(facades) :
              (Spreads(f) /\ Taking(f) /\ Exhausted(f))
                  => it'["sync"].out = <<>>]_vars

C19_Witness ==
    LET f == it["sync"].facade
    IN  /\ runs = 2
        /\ Len(facades) = 3
        /\ history[f].op = "take" /\ history[f].from = 1
        /\ history[f].arg = 2
        /\ Len(source.items) > 2
        /\ history[3].op = "map" /\ history[3].from = f
        /\ pulls["sync"] = 2
        /\ Exhausted(f)
        /\ it["sync"].out = <<>>

(***************************************************************************)
(* SpecRange: one call of range and the pulls of its consumer.  out keeps  *)
(* what the consumer received; the consumer stops after MaxPulls pulls     *)
(* unless the pulls leave the generators where they were.                  *)
(***************************************************************************)
MaxSpan == 3
MaxPulls == 6

\* range(1, 5), range(5, 1), range(0, 10, 3), range(10, 0, -3)
RangeExamples == {<<1, 5, 1>>, <<5, 1, 1>>, <<0, 10, 3>>, <<10, 0, -3>>}

RangeArguments ==
    ((0..MaxSpan) \X ((0..MaxSpan) \cup {Undefined}) \X ((0 - MaxSpan)..MaxSpan))
        \cup RangeExamples

\* range(start, end, step)
Range ==
    \E a \in RangeArguments :
        /\ rng.state = "idle"
        /\ rng' = [state |-> "open", range |-> <<range(a[1], a[2], a[3])>>, out |-> <<>>]
        /\ UNCHANGED <<source, heap, facades, history, it, pulls, calls, runs, built>>

\* the consumer's next()
RangeNext ==
    /\ rng.state = "open"
    /\ LET n == range_next(rng.range[1])
       IN  /\ Len(rng.out) < MaxPulls \/ n.r = rng.range[1]
           /\ rng' = [state |-> IF n.done THEN "done" ELSE "open",
                      range |-> <<n.r>>,
                      out |-> IF n.done \/ Len(rng.out) = MaxPulls THEN rng.out
                              ELSE Append(rng.out, n.value)]
    /\ UNCHANGED <<source, heap, facades, history, it, pulls, calls, runs, built>>

InitRange ==
    /\ source = [items |-> <<>>, hasIterator |-> TRUE, hasAsyncIterator |-> FALSE]
    /\ heap = <<>>
    /\ facades = <<>>
    /\ history = <<>>
    /\ it = [m \in Modes |-> Idle]
    /\ pulls = Zero
    /\ calls = Zero
    /\ runs = 0
    /\ built = [m \in Modes |-> Undefined]
    /\ rng = NoRange

NextRange == Range \/ RangeNext

SpecRange == InitRange /\ [][NextRange]_vars

\* start + i * d * |step| for i = 0 .. floor(|end - start| / |step|)
Progression(start, end, step) ==
    LET d == IF end < start THEN 0 - 1 ELSE 1
    IN  [i \in 1..((Abs(end - start) \div Abs(step)) + 1) |->
            start + (i - 1) * d * Abs(step)]

\* range was called with an explicit end
Bounded == rng.state # "idle" /\ rng.range[1].end # Undefined

(***************************************************************************)
(* C12: with an explicit end and step # 0, range(start, end, step) yields  *)
(* exactly start + i * d * |step| for i = 0 .. floor(|end - start| /       *)
(* |step|), d = -1 when end < start and +1 otherwise: what the consumer    *)
(* has received is always a prefix of that progression, and all of it      *)
(* once the sequence is done.                                              *)
(***************************************************************************)
C12_RangeYieldsProgression ==
    (Bounded /\ rng.range[1].step # 0)
        => LET r == rng.range[1]
               expected == Progression(r.start, r.end, r.step)
           IN  /\ IsPrefix(rng.out, expected)
               /\ rng.state = "done" => rng.out = expected

C12_Witness ==
    /\ rng.state = "done"
    /\ rng.range[1].start = 10 /\ rng.range[1].end = 0 /\ rng.range[1].step = 0 - 3
    /\ rng.out = <<10, 7, 4, 1>>

(***************************************************************************)
(* C20: with an explicit end and step = 0, range(start, end, 0) never      *)
(* ends: every pull yields start and the sequence is never done; a range   *)
(* that is done had step # 0.                                              *)
(***************************************************************************)
C20_ZeroStepNeverEnds ==
    /\ (Bounded /\ rng.range[1].step = 0)
          => /\ rng.state = "open"
             /\ \A k \in 1..Len(rng.out) : rng.out[k] = rng.range[1].start
             /\ ~range_next(rng.range[1]).done
             /\ range_next(rng.range[1]).value = rng.range[1].start
    /\ rng.state = "done" => (Bounded /\ rng.range[1].step # 0)

C20_Witness ==
    /\ Bounded
    /\ rng.range[1].step = 0
    /\ rng.range[1].end < rng.range[1].start
    /\ Len(rng.out) = MaxPulls
    /\ rng.range[1].pc = "suspended"

\* what one fresh stage alone makes of the finite sequence s
Staged(call, s) ==
    CASE call.op = "map"       -> [k \in 1..Len(s) |-> Mapper(call.arg, s[k])]
      [] call.op = "filter"    -> Holds(call.arg, s)
      [] call.op = "first"     -> SubSeq(s, 1, Min(1, Len(s)))
      [] call.op = "last"      -> IF s = <<>> \/ s[Len(s)] = Undefined THEN <<>>
                                  ELSE <<s[Len(s)]>>
      [] call.op = "take"      -> SubSeq(s, 1, Min(call.arg, Len(s)))
      [] call.op = "takeWhile" -> SubSeq(s, 1, FirstFailing(call.arg, s) - 1)
      [] call.op = "scan"      -> [k \in 1..Len(s) |-> Fold(call.arg, SubSeq(s, 1, k))]

\* the stages applied one after another, in the order of the chaining calls
RECURSIVE Applied(_, _)
Applied(stages, s) ==
    IF stages = <<>> THEN s
    ELSE Applied(Tail(stages), Staged(Head(stages), s))

(***************************************************************************)
(* C13: chaining order is application order.  A transducer built by the    *)
(* chaining calls Y then X feeds the elements to Y and Y's output to X:    *)
(* drained over S it yields X(Y(S)), so S.map(f).filter(p) yields, in      *)
(* order, f(x) for the x of S with p(f(x)).                                *)
(***************************************************************************)
C13_ChainingOrderIsApplicationOrder ==
    \A m \in Modes :
        it[m].state = "done" => it[m].out = Applied(history, source.items)

C13_Witness ==
    /\ source.items = <<1, 2, 3>>
    /\ Len(history) = 2
    /\ history[1].op = "map" /\ history[2].op = "filter" /\ history[2].arg = "even"
    /\ \A m \in Modes : it[m].state = "done" /\ it[m].out = <<2, 4>>

(***************************************************************************)
(* SpecThrow: synchronous facades whose mapper, predicate or reducer       *)
(* throws on an element that is not a number, consumed pull by pull; and   *)
(* the consumer asking once more after an exception reached it.            *)
(***************************************************************************)
\* facade.map(strictIncrement)
StrictMap ==
    \E this \in Receivers("Sequence") :
        Chain(Sequence_map(World, this, "strictIncrement"), this, "map", "strictIncrement")

\* facade.filter(strictEven)
StrictFilter ==
    \E this \in Receivers("Sequence") :
        Chain(Sequence_filter(World, this, "strictEven"), this, "filter", "strictEven")

\* facade.takeWhile(strictEven)
StrictTakeWhile ==
    \E this \in Receivers("Sequence") :
        Chain(Sequence_takeWhile(World, this, "strictEven"), this,
              "takeWhile", "strictEven")

\* facade.scan(strictSum)
StrictScan ==
    \E this \in Receivers("Sequence") :
        Chain(Sequence_scan(World, this, "strictSum"), this, "scan", "strictSum")

\* facade.reduce(strictSum)
StrictReduce ==
    \E this \in Receivers("Sequence") :
        Chain(Sequence_reduce(World, this, "strictSum"), this, "reduce", "strictSum")

\* next() on an iterator that has thrown
NextAgain ==
    /\ it["sync"].state = "failed"
    /\ LET r == next_sync(Driving("sync"), Len(it["sync"].chain))
       IN  /\ heap' = r.s.heap
           /\ it' = [it EXCEPT !["sync"] =
                       [@ EXCEPT !.state = "ended", !.pc = r.s.pc, !.pos = r.s.pos,
                                 !.out = IF r.done THEN @ ELSE Append(@, r.value)]]
           /\ pulls' = [pulls EXCEPT !["sync"] = r.s.pulls]
           /\ calls' = [calls EXCEPT !["sync"] = r.s.calls]
    /\ UNCHANGED <<source, facades, history, runs, built, rng>>

InitThrow == Init /\ source.hasIterator

NextThrow ==
    \/ StrictMap \/ StrictFilter \/ StrictTakeWhile \/ StrictScan \/ StrictReduce
    \/ Iterate \/ Next_sync \/ NextAgain

SpecThrow == InitThrow /\ [][NextThrow]_vars

\* index of the first element that is not a number, Len(s) + 1 if none
FirstThrowing(s) ==
    CHOOSE j \in 1..(Len(s) + 1) :
        /\ \A i \in 1..(j - 1) : IsNumber(s[i])
        /\ j <= Len(s) => ~IsNumber(s[j])

\* the elements before it
Sound(s) == SubSeq(s, 1, FirstThrowing(s) - 1)

\* the consumption of S.op(strict function) hands the first element that
\* is not a number to the function
Reaches(op, s) ==
    /\ FirstThrowing(s) <= Len(s)
    /\ op = "takeWhile" => FirstFailing("even", Sound(s)) > Len(Sound(s))

\* what the stage yields from the elements before it
Before(op, s) ==
    CASE op = "map"       -> Staged([op |-> "map", arg |-> "increment"], Sound(s))
      [] op = "filter"    -> Staged([op |-> "filter", arg |-> "even"], Sound(s))
      [] op = "takeWhile" -> Staged([op |-> "takeWhile", arg |-> "even"], Sound(s))
      [] op = "scan"      -> Staged([op |-> "scan", arg |-> "sum"], Sound(s))
      [] op = "reduce"    -> <<>>

(***************************************************************************)
(* C14: when the mapper, predicate or reducer of S.op(...) throws on the   *)
(* k-th element of S, the consumer has by then received exactly the        *)
(* outputs of elements 1 .. k-1, the exception reaches it at the pull      *)
(* that obtained element k (the k-th pull on the source), and the          *)
(* sequence is over: a further next() pulls nothing and yields nothing.    *)
(* The consumption never ends normally when such an element is reached.    *)
(***************************************************************************)
C14_ThrowEndsAtFailingPull ==
    \A op \in {"map", "filter", "takeWhile", "scan", "reduce"} :
        FirstRun("sync", op)
            => LET S == source.items
                   i == it["sync"]
               IN  /\ i.state \in {"failed", "ended"}
                          => /\ Reaches(op, S)
                             /\ i.out = Before(op, S)
                             /\ i.pos = FirstThrowing(S)
                             /\ pulls["sync"] = FirstThrowing(S)
                   /\ (i.state = "open" /\ Reaches(op, S))
                          => /\ IsPrefix(i.out, Before(op, S))
                             /\ i.pos < FirstThrowing(S)
                   /\ i.state = "done" => ~Reaches(op, S)

C14_Witness ==
    /\ FirstRun("sync", "map")
    /\ source.items = <<1, Undefined>>
    /\ it["sync"].state = "ended"
    /\ it["sync"].out = <<2>>
    /\ pulls["sync"] = 2

(***************************************************************************)
(* SpecFactory: calls of sequence() on sources of every capability, plain  *)
(* or wrapped in a function, with and without an explicit transducer.      *)
(***************************************************************************)
FactoryItems == {<<>>, <<1>>}

Iterables ==
    {[items |-> i, hasIterator |-> s, hasAsyncIterator |-> a] :
        i \in FactoryItems, s \in BOOLEAN, a \in BOOLEAN}

FactorySources == Iterables \cup {[returns |-> i] : i \in Iterables}

\* sequence(source) and sequence(source, transducer)
Factory ==
    \E source_ \in FactorySources, transducer \in {Undefined, 1} :
        /\ Len(facades) < MaxFacades
        /\ LET w == sequence(World, source_, transducer)
           IN  /\ heap' = w.heap
               /\ facades' = w.facades
               /\ pulls' = w.pulls
               /\ calls' = w.calls
        /\ history' = Append(history, [from |-> 0, op |-> "sequence",
                                       arg |-> [source |-> source_,
                                                transducer |-> transducer]])
        /\ UNCHANGED <<source, it, runs, built, rng>>

InitFactory ==
    /\ source = [items |-> <<>>, hasIterator |-> TRUE, hasAsyncIterator |-> FALSE]
    /\ heap = identity(<<>>).heap
    /\ facades = <<>>
    /\ history = <<>>
    /\ it = [m \in Modes |-> Idle]
    /\ pulls = Zero
    /\ calls = Zero
    /\ runs = 0
    /\ built = [m \in Modes |-> Undefined]
    /\ rng = NoRange

NextFactory == Factory

SpecFactory == InitFactory /\ [][NextFactory]_vars

\* the value the factory probes: the source, or what the source function
\* returned when the factory called it
Probed(f) ==
    LET given == history[f].arg.source
    IN  IF IsFunction(given) THEN given.returns ELSE given

(***************************************************************************)
(* C15: sequence(source) returns a Sequence when the source, or the value  *)
(* a source function returns when the factory calls it, has the            *)
(* synchronous capability, and an AsyncSequence when it has only the       *)
(* asynchronous one; the facade holds that value, and the choice does not  *)
(* depend on whether a transducer was passed.                              *)
(***************************************************************************)
C15_FactoryChoosesByCapability ==
    \A f \in 1..Len(facades) :
        /\ Probed(f).hasIterator
              => /\ facades[f].kind = "Sequence"
                 /\ facades[f].iterable = Probed(f)
        /\ (~Probed(f).hasIterator /\ Probed(f).hasAsyncIterator)
              => /\ facades[f].kind = "AsyncSequence"
                 /\ facades[f].iterable = Probed(f)
        /\ (facades[f] # NoFacade /\ history[f].arg.transducer # Undefined)
              => facades[f].transducer = history[f].arg.transducer

C15_Witness ==
    /\ Len(facades) = 2
    /\ IsFunction(history[1].arg.source)
    /\ ~Probed(1).hasIterator /\ Probed(1).hasAsyncIterator
    /\ history[1].arg.transducer = Undefined
    /\ facades[1].kind = "AsyncSequence"
    /\ Probed(2).hasIterator /\ Probed(2).hasAsyncIterator
    /\ history[2].arg.transducer = 1
    /\ facades[2].kind = "Sequence"

\* C16: a source with neither capability is a usage error that sequence()
\* surfaces to its caller: it never returns, without raising anything, a
\* value that is not a facade.
C16_NeitherCapabilityIsRefused ==
    \A f \in 1..Len(facades) : facades[f].kind \in {"Sequence", "AsyncSequence"}

(***************************************************************************)
(* SpecCompose: one transducer grown from identity() by chaining calls and *)
(* by compose with any transducer built on the way, on either side, so     *)
(* that composites nest to the left and to the right.                      *)
(***************************************************************************)
MaxCalls == 3

StackCalls ==
    {[from |-> 0, op |-> "map", arg |-> "increment"],
     [from |-> 0, op |-> "filter", arg |-> "odd"],
     [from |-> 0, op |-> "find", arg |-> "even"],
     [from |-> 0, op |-> "first", arg |-> ""],
     [from |-> 0, op |-> "last", arg |-> ""],
     [from |-> 0, op |-> "take", arg |-> 1],
     [from |-> 0, op |-> "takeWhile", arg |-> "odd"],
     [from |-> 0, op |-> "scan", arg |-> "sum"],
     [from |-> 0, op |-> "reduce", arg |-> "sum"]}

Grown(made, call) ==
    /\ heap' = made.heap
    /\ built' = [built EXCEPT !["sync"] = made.ref]
    /\ history' = Append(history, call)
    /\ UNCHANGED <<source, facades, it, pulls, calls, runs, rng>>

\* transducer.map(...), ..., transducer.reduce(...)
Stack ==
    /\ Len(history) < MaxCalls
    /\ \E call \in StackCalls : Grown(Apply(heap, built["sync"], call), call)

\* transducer.compose(other)
ComposeWith ==
    /\ Len(history) < MaxCalls
    /\ \E other \in 1..Len(heap) :
           Grown(Transducer_compose(heap, built["sync"], other),
                 [from |-> 0, op |-> "compose", arg |-> other])

\* other.compose(transducer)
ComposeOnto ==
    /\ Len(history) < MaxCalls
    /\ \E other \in 1..Len(heap) :
           Grown(Transducer_compose(heap, other, built["sync"]),
                 [from |-> other, op |-> "compose", arg |-> 0])

InitCompose ==
    /\ source = [items |-> <<>>, hasIterator |-> TRUE, hasAsyncIterator |-> FALSE]
    /\ LET t == identity(<<>>)
       IN  /\ heap = t.heap
           /\ built = [m \in Modes |-> IF m = "sync" THEN t.ref ELSE Undefined]
    /\ history = <<>>
    /\ facades = <<>>
    /\ it = [m \in Modes |-> Idle]
    /\ pulls = Zero
    /\ calls = Zero
    /\ runs = 0
    /\ rng = NoRange

NextCompose == Stack \/ ComposeWith \/ ComposeOnto

SpecCompose == InitCompose /\ [][NextCompose]_vars

\* stages[1].compose(stages[2]).compose(stages[3]) ...
RECURSIVE Recomposed(_, _, _)
Recomposed(h, transducer, stages) ==
    IF stages = <<>> THEN [heap |-> h, ref |-> transducer]
    ELSE LET c == Transducer_compose(h, transducer, Head(stages))
         IN  Recomposed(c.heap, c.ref, Tail(stages))

\* the stages that pull and yield: all but the identity stages
Working(h, stages) == SelectSeq(stages, LAMBDA t : h[t].kind # "IdentityTransducer")

\* the stage objects one chaining call contributes, in application order
Contributed(call) ==
    CASE call.op = "map"       -> <<MapTransducer(call.arg)>>
      [] call.op = "filter"    -> <<FilterTransducer(call.arg)>>
      [] call.op = "find"      -> <<FilterTransducer(call.arg), FirstTransducer>>
      [] call.op = "first"     -> <<FirstTransducer>>
      [] call.op = "last"      -> <<LastTransducer>>
      [] call.op = "take"      -> <<TakeTransducer(call.arg)>>
      [] call.op = "takeWhile" -> <<TakeWhileTransducer(call.arg)>>
      [] call.op = "scan"      -> <<ScanTransducer(call.arg)>>
      [] call.op = "reduce"    -> <<ScanTransducer(call.arg), LastTransducer>>

RECURSIVE Stacked(_)
Stacked(stages) ==
    IF stages = <<>> THEN <<IdentityTransducer>>
    ELSE Stacked(SubSeq(stages, 1, Len(stages) - 1))
             \o Contributed(stages[Len(stages)])

(***************************************************************************)
(* C18: decompose returns the non-composite leaf stages of a transducer    *)
(* in application order, however its composites are nested: the leaves     *)
(* that are not identity stages are, in order, the stages sync chains      *)
(* from the source outwards; composing the returned stages one after       *)
(* another gives a transducer that drives the same stage instances in      *)
(* the same order; and for a stack grown from identity() by chaining       *)
(* calls alone the leaves are the identity stage followed by the stages    *)
(* of each call in call order (find: filter then first; reduce: scan then  *)
(* last).                                                                  *)
(***************************************************************************)
C18_DecomposeFlattensInOrder ==
    /\ \A t \in 1..Len(heap) :
           LET stages == decompose(heap, t)
               again == Recomposed(heap, stages[1], Tail(stages))
           IN  /\ \A k \in 1..Len(stages) :
                      heap[stages[k]].kind # "CompositeTransducer"
               /\ Working(heap, stages) = sync(heap, t)
               /\ Working(heap, stages) = async_(heap, t)
               /\ sync(again.heap, again.ref) = sync(heap, t)
               /\ decompose(again.heap, again.ref) = stages
    /\ (\A k \in 1..Len(history) : history[k].op # "compose")
           => LET stages == decompose(heap, built["sync"])
              IN  [k \in 1..Len(stages) |-> heap[stages[k]]] = Stacked(history)

C18_Witness ==
    /\ Len(history) = 3
    /\ history[1].op = "find" /\ history[2].op = "reduce"
    /\ history[3].op = "compose" /\ history[3].arg > 1
    /\ heap[heap[built["sync"]].a].kind = "CompositeTransducer"
    /\ heap[heap[built["sync"]].b].kind = "CompositeTransducer"
    /\ Len(decompose(heap, built["sync"])) > 6

====
